---- MODULE Spec2Model ----
(***************************************************************************)
(* Debt Decision Lab (src/app.py): one run of the Streamlit script, from   *)
(* the widget values to the metrics it writes.                             *)
(*                                                                         *)
(* Numbers.  Python's float is a binary floating-point number: a signed    *)
(* significand of a fixed number of bits times a power of two, every       *)
(* operation rounded to the nearest representable value, ties to the even  *)
(* significand.  The model keeps that arithmetic and scales the            *)
(* significand down from 53 bits to Precision bits; the exponent is an     *)
(* integer without bounds, so nothing overflows or underflows.  A value is *)
(* the record [m |-> significand, e |-> exponent] standing for m * 2^e,    *)
(* with 2^(Precision-1) <= |m| < 2^Precision, or m = 0 and e = 0.  Python  *)
(* ints entering float arithmetic are converted by the same rounding; the  *)
(* widget values the model draws are all exactly representable.            *)
(***************************************************************************)
EXTENDS Integers, Sequences, FiniteSets, TLC

\* Bits of the significand of a float (53 in CPython; scaled down).
Precision == 13

\* ------------------------------------------------------------------------
\* Floating-point kernel
\* ------------------------------------------------------------------------

Abs(x) == IF x < 0 THEN -x ELSE x

Sgn(x) == IF x < 0 THEN -1 ELSE IF x > 0 THEN 1 ELSE 0

\* Number of bits of a natural number below 2^30 (0 for 0).
BitLen(a) == IF a = 0 THEN 0 ELSE CHOOSE k \in 1..30 : 2^(k-1) <= a /\ a < 2^k

Zero == [m |-> 0, e |-> 0]

\* The float nearest to M * 2^E, ties to even.
FRound(M, E) ==
    LET a == Abs(M)
        L == BitLen(a)
    IN  IF a = 0 THEN Zero
        ELSE IF L <= Precision
        THEN [m |-> Sgn(M) * a * 2^(Precision - L), e |-> E - (Precision - L)]
        ELSE LET s    == L - Precision
                 q    == a \div 2^s
                 rem  == a % 2^s
                 half == 2^(s-1)
                 up   == rem > half \/ (rem = half /\ q % 2 = 1)
                 q2   == IF up THEN q + 1 ELSE q
             IN  IF q2 = 2^Precision
                 THEN [m |-> Sgn(M) * 2^(Precision-1), e |-> E + s + 1]
                 ELSE [m |-> Sgn(M) * q2, e |-> E + s]

\* int -> float
FromInt(i) == FRound(i, 0)

FNeg(a) == [m |-> -a.m, e |-> a.e]

\* a + b.  An operand more than Precision+1 binary places below the other
\* is less than a quarter of its last place and is absorbed.
FAdd(a, b) ==
    IF a.m = 0 THEN b
    ELSE IF b.m = 0 THEN a
    ELSE LET hi == IF a.e >= b.e THEN a ELSE b
             lo == IF a.e >= b.e THEN b ELSE a
             d  == hi.e - lo.e
         IN  IF d > Precision + 1 THEN hi
             ELSE FRound(hi.m * 2^d + lo.m, lo.e)

FSub(a, b) == FAdd(a, FNeg(b))

FMul(a, b) == FRound(a.m * b.m, a.e + b.e)

\* a / b for b # 0: the quotient to Precision+1 bits and a sticky bit for
\* the remainder, then rounded.
FDiv(a, b) ==
    LET A   == Abs(a.m) * 2^(Precision + 1)
        B   == Abs(b.m)
        q   == A \div B
        rem == A % B
        M   == 2 * q + (IF rem = 0 THEN 0 ELSE 1)
    IN  FRound(Sgn(a.m) * Sgn(b.m) * M, a.e - b.e - Precision - 2)

\* a < b
FLt(a, b) == FSub(a, b).m < 0

FLe(a, b) == FSub(a, b).m <= 0

One == FromInt(1)

\* x ** n for an int n >= 0 (float.__pow__, libm pow): square and multiply,
\* every product rounded.
RECURSIVE FPow(_, _)
FPow(x, n) ==
    IF n = 0 THEN One
    ELSE IF n = 1 THEN x
    ELSE LET h == FPow(x, n \div 2)
             s == FMul(h, h)
         IN  IF n % 2 = 0 THEN s ELSE FMul(s, x)

\* ------------------------------------------------------------------------
\* Functions (src/app.py, FUNCTIONS)
\* ------------------------------------------------------------------------

\* The mark a function returns in place of the exception it raises.
Raised(name) == [ok |-> FALSE, error |-> name]

\* calculate_emi(principal, annual_rate, years) -> emi, n, r
calculate_emi(principal, annual_rate, years) ==
    LET r   == FDiv(FromInt(annual_rate), FromInt(12 * 100))
        n   == years * 12
        pw  == FPow(FAdd(One, r), n)
        den == FSub(pw, One)
    IN  IF r.m = 0
        THEN IF n = 0 THEN Raised("ZeroDivisionError")
             ELSE [ok |-> TRUE, emi |-> FDiv(FromInt(principal), FromInt(n)),
                   n |-> n, r |-> r]
        ELSE IF den.m = 0 THEN Raised("ZeroDivisionError")
             ELSE [ok |-> TRUE,
                   emi |-> FDiv(FMul(FMul(FromInt(principal), r), pw), den),
                   n |-> n, r |-> r]

\* remaining_balance(P, r, emi, k)
remaining_balance(P, r, emi, k) ==
    LET pw == FPow(FAdd(One, r), k)
    IN  IF r.m = 0 THEN Raised("ZeroDivisionError")
        ELSE [ok |-> TRUE,
              value |-> FSub(FMul(FromInt(P), pw),
                             FDiv(FMul(emi, FSub(pw, One)), r))]

\* future_value_monthly_sip(pmt, annual_return, months)
future_value_monthly_sip(pmt, annual_return, months) ==
    LET r == FDiv(FromInt(annual_return), FromInt(12 * 100))
    IN  IF r.m = 0 THEN FromInt(pmt * months)
        ELSE FDiv(FMul(FromInt(pmt), FSub(FPow(FAdd(One, r), months), One)), r)

\* ------------------------------------------------------------------------
\* Widget values the model draws (st.number_input has no bounds of its own
\* unless the call gives them)
\* ------------------------------------------------------------------------

LoanAmounts     == {-1200, 0, 1200, 2000}
InterestRates   == {-12, 0, 12, 24}
TenureYears     == 0..3
PrepayAmounts   == {-12000, 500, 4000}
ExtraPayments   == {-100, 0, 1, 50}
ExpectedReturns == {0, 3, 12}

\* while ... and months < 1000
MaxIter == 1000

\* expected_return = 5
ShockReturn == 5

\* Range searched for the ceiling of the logarithm in new_n.
LogRange == 200

\* ------------------------------------------------------------------------
\* State
\* ------------------------------------------------------------------------

VARIABLES
    pc,                \* position of the script run
    error,             \* the exception that ended the run, "none" otherwise
    loan_amount, interest_rate, remaining_years,          \* lines 67-80
    emi, n, r,                                            \* line 82
    total_payment, total_interest, burden,                \* tab 1
    prepay_year, prepay_amount,                           \* lines 141-142
    balance_before, new_balance,                          \* lines 145-146
    prepay_metrics,    \* the three metrics of tab 2, <<>> when none is written
    extra_monthly, expected_return_input, shock,          \* lines 170-174
    expected_return,                                      \* line 171 / 175
    balance, months, total_payment_with_prepay,           \* lines 178-188
    interest_saved, years_saved, fv,                      \* lines 190-192
    tab3_report,       \* what column 1 of tab 3 writes
    verdict,
    pair               \* two pay-down runs side by side (SpecPair only)

inputs == <<loan_amount, interest_rate, remaining_years>>
emiV   == <<emi, n, r>>
tab1V  == <<total_payment, total_interest, burden>>
tab2V  == <<prepay_year, prepay_amount, balance_before, new_balance, prepay_metrics>>
tab3in == <<extra_monthly, expected_return_input, shock, expected_return>>
loopV  == <<balance, months, total_payment_with_prepay>>
tab3V  == <<interest_saved, years_saved, fv, tab3_report, verdict>>

vars == <<pc, error, inputs, emiV, tab1V, tab2V, tab3in, loopV, tab3V, pair>>

NoPair == [running |-> FALSE]

Init ==
    /\ pc = "emi"
    /\ error = "none"
    /\ loan_amount \in LoanAmounts
    /\ interest_rate \in InterestRates
    /\ remaining_years \in TenureYears
    /\ emi = Zero /\ n = 0 /\ r = Zero
    /\ total_payment = Zero /\ total_interest = Zero /\ burden = "none"
    /\ prepay_year = 0 /\ prepay_amount = 0
    /\ balance_before = Zero /\ new_balance = Zero
    /\ prepay_metrics = <<>>
    /\ extra_monthly = 0 /\ expected_return_input = 0 /\ shock = FALSE
    /\ expected_return = 0
    /\ balance = Zero /\ months = 0 /\ total_payment_with_prepay = Zero
    /\ interest_saved = Zero /\ years_saved = Zero /\ fv = Zero
    /\ tab3_report = <<>>
    /\ verdict = "none"
    /\ pair = NoPair

\* An uncaught exception ends the script run.
Crash(name) == pc' = "crashed" /\ error' = name

\* ------------------------------------------------------------------------
\* Line 82: emi, n, r = calculate_emi(loan_amount, interest_rate, remaining_years)
\* ------------------------------------------------------------------------
ComputeEmi ==
    /\ pc = "emi"
    /\ LET res == calculate_emi(loan_amount, interest_rate, remaining_years)
       IN  IF res.ok
           THEN /\ emi' = res.emi /\ n' = res.n /\ r' = res.r
                /\ pc' = "tab1"
                /\ UNCHANGED error
           ELSE /\ Crash(res.error)
                /\ UNCHANGED emiV
    /\ UNCHANGED <<inputs, tab1V, tab2V, tab3in, loopV, tab3V, pair>>

\* ------------------------------------------------------------------------
\* Tab 1 (lines 114-133)
\* ------------------------------------------------------------------------
BurdenOf(ratio) ==
    IF FLt(ratio, FDiv(FromInt(3), FromInt(10))) THEN "light"
    ELSE IF FLt(ratio, FDiv(FromInt(7), FromInt(10))) THEN "heavy"
    ELSE "very heavy"

Tab1 ==
    /\ pc = "tab1"
    /\ LET tp == FMul(emi, FromInt(n))
           ti == FSub(tp, FromInt(loan_amount))
       IN  /\ total_payment' = tp
           /\ total_interest' = ti
           /\ IF loan_amount = 0
              THEN Crash("ZeroDivisionError") /\ UNCHANGED burden
              ELSE /\ burden' = BurdenOf(FDiv(ti, FromInt(loan_amount)))
                   /\ pc' = "tab2"
                   /\ UNCHANGED error
    /\ UNCHANGED <<inputs, emiV, tab2V, tab3in, loopV, tab3V, pair>>

\* ------------------------------------------------------------------------
\* Tab 2 (lines 138-162)
\* ------------------------------------------------------------------------

\* base ** m for any int m
FPowZ(base, m) == IF m >= 0 THEN FPow(base, m) ELSE FDiv(One, FPow(base, -m))

\* int(math.ceil(math.log(q) / math.log(base))) for q > 0, base > 0,
\* base # 1: the least m with base^m >= q (base > 1) or base^m <= q
\* (base < 1), searched in -LogRange..LogRange.
CeilLog(q, base) ==
    LET S == {m \in -LogRange..LogRange :
                 IF FLt(One, base) THEN FLe(q, FPowZ(base, m))
                                   ELSE FLe(FPowZ(base, m), q)}
    IN  IF S = {} THEN LogRange
        ELSE CHOOSE m \in S : \A j \in S : m <= j

\* Lines 149-150: new_n, or the exception the expression raises.
NewN(emi_, r_, new_balance_) ==
    LET d    == FSub(emi_, FMul(new_balance_, r_))
        base == FAdd(One, r_)
    IN  IF d.m = 0 THEN Raised("ZeroDivisionError")
        ELSE IF FDiv(emi_, d).m <= 0 THEN Raised("ValueError")
        ELSE IF base.m <= 0 THEN Raised("ValueError")
        ELSE IF base = One THEN Raised("ZeroDivisionError")
        ELSE [ok |-> TRUE, value |-> CeilLog(FDiv(emi_, d), base)]

\* Lines 152-162: the three metrics.
PrepayMetrics(emi_, n_, k, new_n) ==
    LET original_remaining         == n_ - k
        new_remaining_payment      == FMul(emi_, FromInt(new_n))
        original_remaining_payment == FMul(emi_, FromInt(original_remaining))
    IN  [months_saved   |-> original_remaining - new_n,
         interest_saved |-> FSub(original_remaining_payment, new_remaining_payment),
         new_n          |-> new_n]

Tab2 ==
    /\ pc = "tab2"
    /\ IF remaining_years < 2
       THEN \* number_input(..., 1, remaining_years, 2): the default value 2
            \* lies above max_value
            /\ Crash("StreamlitAPIException")
            /\ UNCHANGED tab2V
       ELSE \E py \in 1..remaining_years, pa \in PrepayAmounts :
            LET k  == py * 12
                bb == remaining_balance(loan_amount, r, emi, k)
                nb == FSub(bb.value, FromInt(pa))
                nn == NewN(emi, r, nb)
            IN  /\ prepay_year' = py
                /\ prepay_amount' = pa
                /\ IF ~bb.ok
                   THEN /\ Crash(bb.error)
                        /\ UNCHANGED <<balance_before, new_balance, prepay_metrics>>
                   ELSE /\ balance_before' = bb.value
                        /\ new_balance' = nb
                        /\ IF nb.m > 0
                           THEN IF nn.ok
                                THEN /\ prepay_metrics' =
                                          <<PrepayMetrics(emi, n, k, nn.value)>>
                                     /\ pc' = "tab3"
                                     /\ UNCHANGED error
                                ELSE /\ Crash(nn.error)
                                     /\ UNCHANGED prepay_metrics
                           ELSE /\ pc' = "tab3"
                                /\ UNCHANGED <<error, prepay_metrics>>
    /\ UNCHANGED <<inputs, emiV, tab1V, tab3in, loopV, tab3V, pair>>

\* ------------------------------------------------------------------------
\* Tab 3, Prepay vs Invest (lines 167-211)
\* ------------------------------------------------------------------------

\* Lines 170-180: the two inputs, the Recession Shock button, and the
\* start of the pay-down.
Tab3Inputs ==
    /\ pc = "tab3"
    /\ \E em \in ExtraPayments, er \in ExpectedReturns, pressed \in BOOLEAN :
          /\ extra_monthly' = em
          /\ expected_return_input' = er
          /\ shock' = pressed
          /\ expected_return' = IF pressed THEN ShockReturn ELSE er
    /\ balance' = FromInt(loan_amount)
    /\ months' = 0
    /\ total_payment_with_prepay' = Zero
    /\ pc' = "loop"
    /\ UNCHANGED <<error, inputs, emiV, tab1V, tab2V, tab3V, pair>>

\* Mutant of LoopCond: the iteration cap is left out.
LoopCondNoCap(balance_, months_) == balance_.m > 0

\* Line 182: while balance > 0 and months < 1000
LoopCond(balance_, months_) == balance_.m > 0 /\ months_ < MaxIter

\* Mutant of LoopBody: the extra payment is subtracted from the payment.
LoopBodySubExtra(st, emi_, r_, extra) ==
    LET interest       == FMul(st.balance, r_)
        payment        == FSub(emi_, FromInt(extra))
        principal_paid == FSub(payment, interest)
    IN  [balance |-> FSub(st.balance, principal_paid),
         total   |-> FAdd(st.total, payment),
         months  |-> st.months + 1]

\* Lines 183-188: one month of the pay-down.
LoopBody(st, emi_, r_, extra) ==
    LET interest       == FMul(st.balance, r_)
        payment        == FAdd(emi_, FromInt(extra))
        principal_paid == FSub(payment, interest)
    IN  [balance |-> FSub(st.balance, principal_paid),
         total   |-> FAdd(st.total, payment),
         months  |-> st.months + 1]

LoopIter ==
    /\ pc = "loop"
    /\ LoopCond(balance, months)
    /\ LET st == LoopBody([balance |-> balance,
                           total |-> total_payment_with_prepay,
                           months |-> months], emi, r, extra_monthly)
       IN  /\ balance' = st.balance
           /\ total_payment_with_prepay' = st.total
           /\ months' = st.months
    /\ UNCHANGED <<pc, error, inputs, emiV, tab1V, tab2V, tab3in, tab3V, pair>>

\* Line 190
InterestSaved(emi_, n_, loan_amount_, total_) ==
    FSub(FSub(FMul(emi_, FromInt(n_)), FromInt(loan_amount_)),
         FSub(total_, FromInt(loan_amount_)))

\* Lines 190-211: the loop is left; the results and the verdict are written.
Tab3Results ==
    /\ pc = "loop"
    /\ ~LoopCond(balance, months)
    /\ LET is == InterestSaved(emi, n, loan_amount, total_payment_with_prepay)
           ys == FDiv(FromInt(n - months), FromInt(12))
           f  == future_value_monthly_sip(extra_monthly, expected_return, n)
       IN  /\ interest_saved' = is
           /\ years_saved' = ys
           /\ fv' = f
           /\ tab3_report' = <<[kind |-> "LoanClosesIn", months |-> months,
                                years_saved |-> ys, interest_saved |-> is]>>
           /\ verdict' = IF FLt(is, f) THEN "INVESTING wins" ELSE "PREPAYING wins"
    /\ pc' = "done"
    /\ UNCHANGED <<error, inputs, emiV, tab1V, tab2V, tab3in, loopV, pair>>

\* The rest of the run (Case Scenarios, the graph and the heatmap, lines
\* 213-281) writes none of the variables above.

Next == ComputeEmi \/ Tab1 \/ Tab2 \/ Tab3Inputs \/ LoopIter \/ Tab3Results

Spec == Init /\ [][Next]_vars

\* ------------------------------------------------------------------------
\* Two pay-downs of one loan side by side (lines 178-188 run twice, with the
\* extra payments e1 <= e2).  The loan is one the script reaches line 178
\* with: calculate_emi returned, tab 1 divided by a non-zero loan amount,
\* the tenure admits the tab-2 widget and remaining_balance divided by a
\* non-zero rate.
\* ------------------------------------------------------------------------

\* Extra payments of the two runs.
PairExtras == ExtraPayments \cup {-40, 2, 10}

LoopStart(P) == [balance |-> FromInt(P), total |-> Zero, months |-> 0]

InitPair ==
    /\ pc = "pair"
    /\ error = "none"
    /\ loan_amount \in LoanAmounts \ {0}
    /\ interest_rate \in InterestRates
    /\ remaining_years \in {y \in TenureYears : y >= 2}
    /\ LET res == calculate_emi(loan_amount, interest_rate, remaining_years)
       IN  /\ res.ok
           /\ res.r.m # 0
           /\ emi = res.emi /\ n = res.n /\ r = res.r
    /\ total_payment = Zero /\ total_interest = Zero /\ burden = "none"
    /\ prepay_year = 0 /\ prepay_amount = 0
    /\ balance_before = Zero /\ new_balance = Zero
    /\ prepay_metrics = <<>>
    /\ extra_monthly = 0 /\ expected_return_input = 0 /\ shock = FALSE
    /\ expected_return = 0
    /\ balance = Zero /\ months = 0 /\ total_payment_with_prepay = Zero
    /\ interest_saved = Zero /\ years_saved = Zero /\ fv = Zero
    /\ tab3_report = <<>>
    /\ verdict = "none"
    /\ \E e1 \in PairExtras, e2 \in PairExtras :
          /\ e1 <= e2
          /\ pair = [running |-> TRUE, e1 |-> e1, e2 |-> e2,
                     s1 |-> LoopStart(loan_amount), s2 |-> LoopStart(loan_amount)]

\* One month in each run that is still in its loop.
PairStep ==
    /\ pc = "pair"
    /\ LoopCond(pair.s1.balance, pair.s1.months)
          \/ LoopCond(pair.s2.balance, pair.s2.months)
    /\ pair' = [pair EXCEPT
          !.s1 = IF LoopCond(pair.s1.balance, pair.s1.months)
                 THEN LoopBody(pair.s1, emi, r, pair.e1) ELSE pair.s1,
          !.s2 = IF LoopCond(pair.s2.balance, pair.s2.months)
                 THEN LoopBody(pair.s2, emi, r, pair.e2) ELSE pair.s2]
    /\ UNCHANGED <<pc, error, inputs, emiV, tab1V, tab2V, tab3in, loopV, tab3V>>

\* Both loops are left.
PairEnd ==
    /\ pc = "pair"
    /\ ~LoopCond(pair.s1.balance, pair.s1.months)
    /\ ~LoopCond(pair.s2.balance, pair.s2.months)
    /\ pc' = "pairdone"
    /\ UNCHANGED <<error, inputs, emiV, tab1V, tab2V, tab3in, loopV, tab3V, pair>>

NextPair == PairStep \/ PairEnd

SpecPair == InitPair /\ [][NextPair]_vars

\* ------------------------------------------------------------------------
\* Properties
\* ------------------------------------------------------------------------

\* The loan is valid: principal > 0, rate >= 0, years > 0.
ValidLoan == loan_amount > 0 /\ interest_rate >= 0 /\ remaining_years > 0

\* C8: monotone in the extra payment: with e1 <= e2 on the same loan, the
\* run with e2 never takes more months than the run with e1.
C8_MonotoneInExtra ==
    pc = "pairdone" => pair.s2.months <= pair.s1.months

\* C8 witness: a valid loan, e1 < e2, the first run stopped by the cap and
\* the second paid off earlier.
C8_Witness ==
    /\ pc = "pairdone" /\ ValidLoan /\ pair.e1 < pair.e2
    /\ pair.s1.months = MaxIter /\ pair.s1.balance.m > 0
    /\ pair.s2.months < n /\ pair.s2.balance.m <= 0

\* C6: the pay-down loop is bounded for every input: the month counter
\* never passes 1000, every iteration adds exactly 1 to it, and the loop is
\* left only with balance <= 0 or with the counter at 1000.
C6_LoopBounded ==
    [][ /\ months <= MaxIter /\ months' <= MaxIter
        /\ (pc = "loop" /\ pc' = "loop") => months' = months + 1
        /\ (pc = "loop" /\ pc' # "loop") =>
              /\ balance.m <= 0 \/ months = MaxIter
              /\ months' = months /\ balance' = balance ]_vars

\* C6 witness: a run with a negative extra payment left the loop at the cap
\* with the balance still positive.
C6_Witness ==
    pc = "done" /\ extra_monthly < 0 /\ months = MaxIter /\ balance.m > 0

\* C1: a pay-down stopped by the 1000-iteration cap with balance > 0 is
\* reported as PayoffNotConverged, not as an ordinary months-to-payoff
\* (stated for valid loans; the extra payment may be negative).
C1_CapReportedAsNotConverged ==
    (pc = "done" /\ ValidLoan /\ months = MaxIter /\ balance.m > 0) =>
        /\ tab3_report # <<>>
        /\ tab3_report[1].kind = "PayoffNotConverged"

\* C2: an evaluation with invalid inputs fails with InvalidInput and
\* computes nothing: calculate_emi with principal <= 0, years <= 0 or
\* rate < 0, and the prepayment with amount < 0 or a prepay year outside
\* [1, tenure years).
C2_InvalidInputRejected ==
    /\ (pc # "emi" /\ ~ValidLoan) => (error = "InvalidInput" /\ emi = Zero)
    /\ (prepay_year # 0 /\ (prepay_amount < 0 \/ prepay_year >= remaining_years)) =>
           /\ error = "InvalidInput"
           /\ balance_before = Zero /\ prepay_metrics = <<>>

\* C3: the prepayment computation never ends in an arithmetic or domain
\* fault; with new_balance > 0 and emi <= new_balance * r it fails with
\* PrepaymentInfeasible (stated for valid loans, any prepay year and
\* amount the widgets give).
C3_NoDomainFaultInPrepayment ==
    (ValidLoan /\ prepay_year # 0) =>
        /\ error \notin {"ValueError", "ZeroDivisionError"}
        /\ (new_balance.m > 0 /\ FLe(emi, FMul(new_balance, r))) =>
               error = "PrepaymentInfeasible"

\* C4: with new_balance <= 0 the prepayment outcome is still reported:
\* new periods 0, months saved n - k, interest saved emi * (n - k)
\* (stated for valid loans and prepay amounts >= 0).
C4_RetiredLoanReported ==
    (pc \in {"tab3", "loop", "done"} /\ ValidLoan /\ prepay_amount >= 0
        /\ new_balance.m <= 0) =>
        /\ prepay_metrics # <<>>
        /\ prepay_metrics[1].new_n = 0
        /\ prepay_metrics[1].months_saved = n - prepay_year * 12
        /\ prepay_metrics[1].interest_saved =
               FMul(emi, FromInt(n - prepay_year * 12))

\* C5: with a zero periodic rate remaining_balance returns
\* principal - emi * k, without a division by zero (stated for valid
\* loans and prepay amounts >= 0).
C5_ZeroRateBalance ==
    (ValidLoan /\ prepay_year # 0 /\ prepay_amount >= 0 /\ r.m = 0) =>
        /\ error = "none"
        /\ balance_before =
               FSub(FromInt(loan_amount), FMul(emi, FromInt(prepay_year * 12)))

\* C7: with no extra payment a valid loan is paid off exactly at month n:
\* the balance is positive before month n, months = n on leaving the loop
\* and years saved = 0.
C7_ZeroExtraFollowsSchedule ==
    (ValidLoan /\ extra_monthly = 0) =>
        /\ (pc = "loop" /\ months < n) => balance.m > 0
        /\ pc = "done" => (months = n /\ years_saved = Zero)

\* C9: the Recession Shock replaces the expected return by a fixed value
\* lower than the return supplied, before the projection, which uses the
\* replaced value alone (stated for valid loans and extra payments >= 0).
C9_ShockLowersReturn ==
    (shock /\ ValidLoan /\ extra_monthly >= 0 /\ pc \in {"loop", "done"}) =>
        /\ expected_return = ShockReturn
        /\ expected_return < expected_return_input
        /\ pc = "done" =>
               fv = future_value_monthly_sip(extra_monthly, ShockReturn, n)

\* C10: for a valid loan and an extra payment >= 0 whose pay-down ended
\* with balance <= 0, the total paid never exceeds emi * n: the interest
\* saved is never negative.
C10_InterestSavedNonNegative ==
    (pc = "done" /\ ValidLoan /\ extra_monthly >= 0 /\ balance.m <= 0) =>
        /\ FLe(total_payment_with_prepay, FMul(emi, FromInt(n)))
        /\ interest_saved.m >= 0
====
